---- MODULE Spec2Model ----
(***************************************************************************)
(* A model of the GPS extraction workflow of geo-photo-toolkit:            *)
(*   src/src/core/exif.py             the metadata decoder                 *)
(*   src/src/core/ocr.py              the text parser, the engine adapters *)
(*                                    and the recognition dispatcher       *)
(*   src/src/core/preprocess.py       the preprocessing step               *)
(*   src/src/workflows/gps_extraction.py  the per-photo orchestrator       *)
(*                                                                         *)
(* Three specifications share the module:                                  *)
(*   Spec        a run of run_gps_extraction_workflow over the photos      *)
(*   ParserSpec  _parse_gps_from_text, tier by tier, on one text           *)
(*   OcrSpec     the module state of ocr.py over a process's calls of      *)
(*               extract_gps_with_ocr                                      *)
(*                                                                         *)
(* Python values are tagged records: None, a float, a string, a rational.  *)
(* A float x is kept as the integer x * Unit, which is exact for every     *)
(* value used here: the rationals with denominator 1 or 2 and their        *)
(* sixtieths and 3600ths, and the decimals of up to six fractional digits. *)
(* A function that can raise yields [raised, value], raised being the      *)
(* exception's name or "".                                                 *)
(***************************************************************************)
EXTENDS Integers, Sequences, FiniteSets, TLC

VARIABLES
    ocr_disabled,           \* parameter of run_gps_extraction_workflow
    ocr_engine,             \* parameter: "easyocr" or "google"
    gcv_fallback,           \* parameter
    gcv_limit,              \* parameter: -1 is "no limit"
    no_ocr_on_invalid_gps,  \* parameter
    tags_to_extract,        \* config["extract"]["columns"]
    pc,                     \* position of the workflow in its loop body
    file_index,             \* number of files of image_files already taken
    photo,                  \* the file the current iteration works on
    image_data,             \* the current iteration's record
    ocr_result,             \* local of the loop body
    source_engine,          \* local of the loop body
    gcv_processed_count,    \* the budget counter
    all_image_data,         \* the rows collected so far
    ocr_calls               \* history: every call of extract_gps_with_ocr

\* _parse_gps_from_text
VARIABLES
    text,                   \* the argument
    cleaned,                \* local: the normalised text
    parse_pc,               \* position in the function
    consulted,              \* history: the tiers whose pattern was searched
    coords                  \* the value returned

\* the module state of ocr.py and a call of extract_gps_with_ocr
VARIABLES
    easyocr_reader,         \* module global (lines 14-20)
    gcv_client,             \* module global (line 23)
    ocr_pc,                 \* position in the module / in extract_gps_with_ocr
    engine,                 \* parameter of the last call
    gcv_key_path,           \* parameter of the last call
    raw_text_blocks,        \* local of the last call
    block_index,            \* the block the loop of line 243 is at
    returned,               \* what the last call returned, or raised
    parsed,                 \* history: the blocks parsed in the last call
    reader_inits,           \* history: the calls of easyocr.Reader(...)
    client_constructions,   \* history: the clients constructed
    invoked                 \* history: the adapter invocations per engine

workflow_vars == <<ocr_disabled, ocr_engine, gcv_fallback, gcv_limit,
                   no_ocr_on_invalid_gps, tags_to_extract, pc, file_index, photo,
                   image_data, ocr_result, source_engine, gcv_processed_count,
                   all_image_data, ocr_calls>>

parser_vars == <<text, cleaned, parse_pc, consulted, coords>>

ocr_vars == <<easyocr_reader, gcv_client, ocr_pc, engine, gcv_key_path,
              raw_text_blocks, block_index, returned, parsed, reader_inits,
              client_constructions, invoked>>

vars == <<workflow_vars, parser_vars, ocr_vars>>

params == <<ocr_disabled, ocr_engine, gcv_fallback, gcv_limit,
            no_ocr_on_invalid_gps, tags_to_extract>>

(***************************************************************************)
(* Bounds of the model.                                                    *)
(***************************************************************************)
\* the number of image files in input_dir
MaxPhotos == 2
\* the largest finite gcv_limit tried
MaxLimit == 1
\* the number of engine invocations in one process (OcrSpec)
MaxCalls == 3

(***************************************************************************)
(* Python values.                                                          *)
(***************************************************************************)
NoneV == [kind |-> "None"]
Flt(n) == [kind |-> "float", v |-> n]
Str(s) == [kind |-> "str", s |-> s]
R(n, d) == [kind |-> "rational", num |-> n, den |-> d]

\* the number of float units in 1.0
Unit == 9000000

\* the float literal of d degrees, in the model's fixed-point unit
Deg(d) == Flt(d * Unit)

\* dict.get(key): the value, or None
Get(d, k) == IF k \in DOMAIN d THEN d[k] ELSE NoneV

\* the empty dict
EmptyDict == [k \in {} |-> NoneV]

Returns(v) == [raised |-> "", value |-> v]
Raises(e) == [raised |-> e, value |-> NoneV]

(***************************************************************************)
(* src/src/core/exif.py                                                    *)
(***************************************************************************)
\* float(r) of a PIL IFDRational r (which is a numbers.Rational):
\* numerator / denominator, for a denominator other than zero
Float(r) == Flt((r.num * Unit) \div r.den)

\* lines 46-51.  float() of a rational with denominator zero divides by
\* zero, so the conversion raises ZeroDivisionError
_convert_dms_to_dd(degrees, minutes, seconds, direction) ==
    IF degrees.den = 0 \/ minutes.den = 0 \/ seconds.den = 0
    THEN Raises("ZeroDivisionError")
    ELSE LET dd == Float(degrees).v + (Float(minutes).v \div 60)
                   + (Float(seconds).v \div 3600)
         IN  IF direction \in {Str("S"), Str("W")}
             THEN Returns(Flt(0 - dd))
             ELSE Returns(Flt(dd))

\* Python truthiness of gps_decoded.get(tag) for a tuple-valued tag
TruthyTuple(gps, tag) == tag \in DOMAIN gps /\ Len(gps[tag]) > 0

\* [mutant] the except clause without ZeroDivisionError
CaughtWithoutZeroDivision == {"AttributeError", "TypeError", "ValueError"}

\* line 103: the exceptions the GPS step catches
CaughtByGpsStep == {"AttributeError", "ZeroDivisionError", "TypeError", "ValueError"}

\* lines 88-102, inside the try: the two conversions in their order.  The
\* arguments lat_dms[1], lat_dms[2] are evaluated before the call, so a
\* tuple of fewer than three components raises IndexError first.
GpsConversion(gps) ==
    LET lat_dms == gps["GPSLatitude"]
        lon_dms == gps["GPSLongitude"]
        lat == _convert_dms_to_dd(lat_dms[1], lat_dms[2], lat_dms[3],
                                  Get(gps, "GPSLatitudeRef"))
        lon == _convert_dms_to_dd(lon_dms[1], lon_dms[2], lon_dms[3],
                                  Get(gps, "GPSLongitudeRef"))
    IN  IF ~(lat_dms[1].den # 0 /\ lon_dms[1].den # 0) THEN Returns(EmptyDict)
        ELSE IF Len(lat_dms) < 3 THEN Raises("IndexError")
        ELSE IF lat.raised # "" THEN Raises(lat.raised)
        ELSE IF Len(lon_dms) < 3 THEN Raises("IndexError")
        ELSE IF lon.raised # "" THEN Raises(lon.raised)
        ELSE Returns(("GPSLatitude" :> lat.value) @@ ("GPSLongitude" :> lon.value))

\* lines 82-104: the GPS step of extract_exif_data: the entries it adds to
\* all_decoded_data, or the exception that leaves the function
GpsStep(gps) ==
    IF ~(TruthyTuple(gps, "GPSLatitude") /\ TruthyTuple(gps, "GPSLongitude"))
    THEN Returns(EmptyDict)
    ELSE LET c == GpsConversion(gps)
         IN  IF c.raised \in CaughtByGpsStep THEN Returns(EmptyDict) ELSE c

\* lines 106-108
AltitudeStep(gps) ==
    IF "GPSAltitude" \in DOMAIN gps
    THEN "GPSAltitude" :> gps["GPSAltitude"]
    ELSE EmptyDict

\* lines 111-123: one entry per requested field, None when the tag is absent
FinalData(all_decoded_data, tags) ==
    [friendly_name \in DOMAIN tags |-> Get(all_decoded_data, tags[friendly_name])]

\* extract_exif_data(image_path, tags_to_extract): None (no readable EXIF
\* container) or the dict of the requested fields, or an exception
extract_exif_data(p, tags) ==
    IF ~p.exif
    THEN Returns(NoneV)
    ELSE LET g == GpsStep(p.gps)
         IN  IF g.raised # ""
             THEN Raises(g.raised)
             ELSE Returns(FinalData(AltitudeStep(p.gps) @@ g.value @@ p.ifd, tags))

(***************************************************************************)
(* The input files.  A photo is what the libraries see of one file:        *)
(*   exif  Image.open(...).getexif() gave a non-empty EXIF object          *)
(*   ifd   the decoded main and Exif IFDs                                  *)
(*   gps   the decoded GPS IFD                                             *)
(*   cv    cv2.imread can decode the file                                  *)
(***************************************************************************)
DmsLat == <<R(10, 1), R(30, 1), R(0, 1)>>
DmsLon == <<R(110, 1), R(30, 1), R(0, 1)>>
DmsHalves == <<R(21, 2), R(0, 1), R(0, 1)>>
DmsZero == <<R(0, 1), R(0, 1), R(0, 1)>>
DmsBig == <<R(200, 1), R(0, 1), R(0, 1)>>
DmsDegDen0 == <<R(10, 0), R(30, 1), R(0, 1)>>
DmsMinDen0 == <<R(10, 1), R(30, 0), R(0, 1)>>
DmsSecDen0 == <<R(110, 1), R(30, 1), R(0, 0)>>
DmsAllDen0 == <<R(0, 0), R(0, 0), R(0, 0)>>
DmsShort == <<R(10, 1), R(30, 1)>>

GpsIfd(lat, latRef, lon, lonRef) ==
    ("GPSLatitude" :> lat) @@ ("GPSLatitudeRef" :> Str(latRef))
    @@ ("GPSLongitude" :> lon) @@ ("GPSLongitudeRef" :> Str(lonRef))

GpsIfds ==
    { EmptyDict,
      GpsIfd(DmsLat, "S", DmsLon, "E"),
      GpsIfd(DmsHalves, "N", DmsLon, "W") @@ ("GPSAltitude" :> R(35, 1)),
      GpsIfd(DmsZero, "N", DmsZero, "E"),
      GpsIfd(DmsZero, "N", DmsLon, "E"),
      GpsIfd(DmsBig, "N", DmsLon, "E"),
      GpsIfd(DmsDegDen0, "N", DmsLon, "E"),
      GpsIfd(DmsLat, "N", DmsSecDen0, "E"),
      GpsIfd(DmsMinDen0, "S", DmsLon, "E"),
      GpsIfd(DmsAllDen0, "N", DmsAllDen0, "E"),
      GpsIfd(DmsShort, "N", DmsLon, "E"),
      ("GPSLatitude" :> DmsLat) @@ ("GPSLatitudeRef" :> Str("N")),
      ("GPSLatitude" :> DmsLat) @@ ("GPSLongitude" :> DmsLon) }

MainIfd == "Make" :> Str("ACME")

Photos ==
    [exif : {TRUE}, ifd : {MainIfd}, gps : GpsIfds, cv : BOOLEAN]
    \cup [exif : {FALSE}, ifd : {EmptyDict}, gps : {EmptyDict}, cv : BOOLEAN]

\* the value of photo between two iterations
NoPhoto == [exif |-> FALSE, ifd |-> EmptyDict, gps |-> EmptyDict, cv |-> FALSE]

\* whether some rational of the tuple-valued tag has a zero denominator
HasZeroDenominator(gps, tag) ==
    /\ tag \in DOMAIN gps
    /\ \E i \in DOMAIN gps[tag] : gps[tag][i].den = 0

(***************************************************************************)
(* The configurations: config["extract"]["columns"] maps the output field  *)
(* names to EXIF tag names; the workflow reads the fields "lat" and "lon". *)
(***************************************************************************)
TagsLatLon ==
    ("lat" :> "GPSLatitude") @@ ("lon" :> "GPSLongitude") @@ ("make" :> "Make")
TagsLatOnly ==
    ("lat" :> "GPSLatitude") @@ ("altitude" :> "GPSAltitude")
TagConfigs == {TagsLatLon, TagsLatOnly}

OCREngine == {"easyocr", "google"}

(***************************************************************************)
(* src/src/core/ocr.py: _parse_gps_from_text                               *)
(*                                                                         *)
(* A text is the sequence of its characters.  The three patterns are kept  *)
(* as sequences of items and matched the way Python's re does it: by       *)
(* backtracking, the alternatives tried in the order of their priority     *)
(* (a greedy quantifier the longest repetition first, a lazy one the       *)
(* shortest first), the first complete match being the result.            *)
(***************************************************************************)
Pair(lat, lon) == [kind |-> "pair", lat |-> lat, lon |-> lon]

Digit == {"0", "1", "2", "3", "4", "5", "6", "7", "8", "9"}

\* \s, as far as the texts here contain it
Whitespace == {" ", "\n"}

\* the characters line 42 keeps: [\dNSEW°'".\- ]
KeptByFilter == Digit \cup {"N", "S", "E", "W", "°", "'", "\"", ".", "-", " "}

\* the characters "." can match in a normalised text (any but a newline)
AnyChar == KeptByFilter \cup {"n", "s", "e", "w"}

\* lines 36-39: str.replace of one character by another
ReplaceChar(c) ==
    CASE c = "\n" -> " "
      [] c = "*" -> "°"
      [] c = "/" -> "'"
      [] c = "," -> "."
      [] OTHER -> c

\* line 40: str.replace("  ", " "): the occurrences of two spaces, taken
\* from the left without overlap
RECURSIVE ReplaceDoubleSpace(_, _)
ReplaceDoubleSpace(txt, i) ==
    IF i > Len(txt) THEN <<>>
    ELSE IF i < Len(txt) /\ txt[i] = " " /\ txt[i + 1] = " "
    THEN <<" ">> \o ReplaceDoubleSpace(txt, i + 2)
    ELSE <<txt[i]>> \o ReplaceDoubleSpace(txt, i + 1)

\* line 42: re.sub(r'[^\dNSEW°\'".\- ]+', " ", text): every maximal run of
\* characters outside the kept class becomes one space
RECURSIVE SubOutsideKept(_, _)
SubOutsideKept(txt, i) ==
    IF i > Len(txt) THEN <<>>
    ELSE IF txt[i] \notin KeptByFilter
    THEN IF i > 1 /\ txt[i - 1] \notin KeptByFilter
         THEN SubOutsideKept(txt, i + 1)
         ELSE <<" ">> \o SubOutsideKept(txt, i + 1)
    ELSE <<txt[i]>> \o SubOutsideKept(txt, i + 1)

\* line 43: re.sub(r"\s+", " ", text): every run of whitespace becomes one space
RECURSIVE SubWhitespace(_, _)
SubWhitespace(txt, i) ==
    IF i > Len(txt) THEN <<>>
    ELSE IF txt[i] \in Whitespace
    THEN IF i > 1 /\ txt[i - 1] \in Whitespace
         THEN SubWhitespace(txt, i + 1)
         ELSE <<" ">> \o SubWhitespace(txt, i + 1)
    ELSE <<txt[i]>> \o SubWhitespace(txt, i + 1)

\* lines 35-43: the normalised text
Cleaned(txt) ==
    LET replaced == [i \in DOMAIN txt |-> ReplaceChar(txt[i])]
        spaced == ReplaceDoubleSpace(replaced, 1)
    IN  SubWhitespace(SubOutsideKept(spaced, 1), 1)

(***************************************************************************)
(* The patterns.  An item is                                               *)
(*   Cls(c, min, max)   min to max characters of c, greedy (max -1: any)   *)
(*   Lazy(c, min, max)  the same, the shortest repetition first            *)
(*   Open(g), Close(g)  the bounds of capture group g                      *)
(*   Opt(n)             the next n items are an optional group, greedy     *)
(***************************************************************************)
Cls(c, min, max) == [t |-> "cls", cls |-> c, min |-> min, max |-> max, lazy |-> FALSE]
Lazy(c, min, max) == [t |-> "cls", cls |-> c, min |-> min, max |-> max, lazy |-> TRUE]
Open(g) == [t |-> "open", g |-> g]
Close(g) == [t |-> "close", g |-> g]
Opt(n) == [t |-> "opt", n |-> n]

\* (\d{1,2}(?:\.\d+)?)? as group g
OptionalSeconds(g) ==
    <<Opt(6), Open(g), Cls(Digit, 1, 2), Opt(2), Cls({"."}, 1, 1),
      Cls(Digit, 1, -1), Close(g)>>

\* [NS] and [EW] under re.IGNORECASE
NS == {"N", "S", "n", "s"}
EW == {"E", "W", "e", "w"}

\* lines 46-50
coord_regex ==
    <<Open(1), Cls(Digit, 1, 2), Close(1), Cls({"°"} \cup Whitespace, 0, 1),
      Open(2), Cls(Digit, 1, 2), Close(2), Cls(Whitespace \cup {"'", "\""}, 0, 1)>>
    \o OptionalSeconds(3)
    \o <<Cls({"\""} \cup Whitespace, 0, 1), Open(4), Cls(NS, 1, 1), Close(4),
         Lazy(AnyChar, 0, -1),
         Open(5), Cls(Digit, 1, 3), Close(5), Cls({"°"} \cup Whitespace, 0, 1),
         Open(6), Cls(Digit, 1, 2), Close(6), Cls(Whitespace \cup {"'", "\""}, 0, 1)>>
    \o OptionalSeconds(7)
    \o <<Cls({"\""} \cup Whitespace, 0, 1), Open(8), Cls(EW, 1, 1), Close(8)>>

\* lines 53-57
ddm_regex ==
    <<Open(1), Cls(Digit, 1, 2), Close(1), Cls({"°"} \cup Whitespace, 0, 1),
      Open(2), Cls(Digit \cup {"."}, 1, -1), Close(2),
      Cls(Whitespace \cup {"'", "\""}, 0, 1), Open(3), Cls(NS, 1, 1), Close(3),
      Lazy(AnyChar, 0, -1),
      Open(4), Cls(Digit, 1, 3), Close(4), Cls({"°"} \cup Whitespace, 0, 1),
      Open(5), Cls(Digit \cup {"."}, 1, -1), Close(5),
      Cls(Whitespace \cup {"'", "\""}, 0, 1), Open(6), Cls(EW, 1, 1), Close(6)>>

\* lines 124-126 (this pattern is compiled without re.IGNORECASE)
dd_pattern ==
    <<Open(1), Cls({"-"}, 0, 1), Cls(Digit, 1, 2), Cls({"."}, 1, 1),
      Cls(Digit, 4, -1), Close(1), Cls(Whitespace, 0, -1), Cls({"N", "S"}, 0, 1),
      Cls({",", " "}, 1, 1), Cls(Whitespace, 0, -1),
      Open(2), Cls({"-"}, 0, 1), Cls(Digit, 1, 3), Cls({"."}, 1, 1),
      Cls(Digit, 4, -1), Close(2), Cls(Whitespace, 0, -1), Cls({"E", "W"}, 0, 1)>>

\* the number of characters of cls at position pos and after, max at most
RECURSIVE Run(_, _, _, _)
Run(txt, pos, cls, max) ==
    IF max = 0 \/ pos > Len(txt) \/ txt[pos] \notin cls THEN 0
    ELSE 1 + Run(txt, pos + 1, cls, max - 1)

NoMatch == [ok |-> FALSE]

\* the first match of the items i.. of the pattern at position pos, groups
\* being the capture groups closed so far (<<start, end>>, <<0, 0>> unset)
RECURSIVE MatchFrom(_, _, _, _, _)
RECURSIVE Repeat(_, _, _, _, _, _, _)
MatchFrom(pattern, txt, i, pos, groups) ==
    IF i > Len(pattern) THEN [ok |-> TRUE, end |-> pos, groups |-> groups]
    ELSE LET item == pattern[i]
         IN  CASE item.t = "open" ->
                    MatchFrom(pattern, txt, i + 1, pos,
                              [groups EXCEPT ![item.g] = <<pos, 0>>])
               [] item.t = "close" ->
                    MatchFrom(pattern, txt, i + 1, pos,
                              [groups EXCEPT ![item.g] = <<groups[item.g][1], pos>>])
               [] item.t = "opt" ->
                    LET taken == MatchFrom(pattern, txt, i + 1, pos, groups)
                    IN  IF taken.ok THEN taken
                        ELSE MatchFrom(pattern, txt, i + item.n + 1, pos, groups)
               [] item.t = "cls" ->
                    LET most == Run(txt, pos, item.cls, item.max)
                    IN  IF most < item.min THEN NoMatch
                        ELSE Repeat(pattern, txt, i, pos, groups, most,
                                    IF item.lazy THEN item.min ELSE most)

\* item i repeated n times, then the rest; on failure the next repetition
\* count in the item's order of preference
Repeat(pattern, txt, i, pos, groups, most, n) ==
    LET rest == MatchFrom(pattern, txt, i + 1, pos + n, groups)
    IN  IF rest.ok THEN rest
        ELSE IF pattern[i].lazy
        THEN IF n < most
             THEN Repeat(pattern, txt, i, pos, groups, most, n + 1)
             ELSE NoMatch
        ELSE IF n > pattern[i].min
             THEN Repeat(pattern, txt, i, pos, groups, most, n - 1)
             ELSE NoMatch

\* pattern.search(text): the match at the leftmost start that has one
RECURSIVE Search(_, _, _, _)
Search(pattern, txt, ngroups, start) ==
    IF start > Len(txt) + 1 THEN NoMatch
    ELSE LET m == MatchFrom(pattern, txt, 1, start,
                            [g \in 1 .. ngroups |-> <<0, 0>>])
         IN  IF m.ok THEN m ELSE Search(pattern, txt, ngroups, start + 1)

\* match.group(g): the captured text, or None when the group took no part
Group(txt, m, g) ==
    IF m.groups[g][2] = 0 THEN NoneV
    ELSE [kind |-> "str", s |-> SubSeq(txt, m.groups[g][1], m.groups[g][2] - 1)]

(***************************************************************************)
(* float(s) of a captured text.                                            *)
(***************************************************************************)
DigitValue(c) ==
    CASE c = "0" -> 0 [] c = "1" -> 1 [] c = "2" -> 2 [] c = "3" -> 3
      [] c = "4" -> 4 [] c = "5" -> 5 [] c = "6" -> 6 [] c = "7" -> 7
      [] c = "8" -> 8 [] c = "9" -> 9

RECURSIVE Power10(_)
Power10(k) == IF k = 0 THEN 1 ELSE 10 * Power10(k - 1)

\* the integer written by the digits s
RECURSIVE IntOf(_)
IntOf(s) ==
    IF s = <<>> THEN 0
    ELSE 10 * IntOf(SubSeq(s, 1, Len(s) - 1)) + DigitValue(s[Len(s)])

\* the value, in Units, of the fraction written by the digits s after the
\* point: exact up to six digits, the further digits being dropped
FractionOf(s) ==
    LET k == IF Len(s) > 6 THEN 6 ELSE Len(s)
    IN  IntOf(SubSeq(s, 1, k)) * (Unit \div Power10(k))

\* float(s) for s made of an optional sign, digits and points: ValueError
\* unless there is at most one point and at least one digit
FloatOfText(s) ==
    LET negative == s # <<>> /\ s[1] = "-"
        body == IF negative THEN SubSeq(s, 2, Len(s)) ELSE s
        points == {i \in DOMAIN body : body[i] = "."}
        point == IF points = {} THEN Len(body) + 1 ELSE CHOOSE i \in points : TRUE
        whole == SubSeq(body, 1, point - 1)
        fraction == SubSeq(body, point + 1, Len(body))
        v == IntOf(whole) * Unit + FractionOf(fraction)
    IN  IF Cardinality(points) > 1 \/ Len(whole) + Len(fraction) = 0
        THEN Raises("ValueError")
        ELSE Returns(Flt(IF negative THEN 0 - v ELSE v))

\* float(match.group(g) or 0)
FloatOrZero(txt, m, g) ==
    IF Group(txt, m, g) = NoneV THEN Returns(Flt(0))
    ELSE FloatOfText(Group(txt, m, g).s)

\* the first of the results that raised, or "" when none did
FirstRaised(results) ==
    IF \A i \in DOMAIN results : results[i].raised = "" THEN ""
    ELSE results[CHOOSE i \in DOMAIN results :
                    /\ results[i].raised # ""
                    /\ \A j \in 1 .. i - 1 : results[j].raised = ""].raised

\* [mutant] the latitude bound is taken as wide as the longitude bound
InRangeLatAsLon(lat, lon) ==
    /\ 0 - 180 * Unit <= lat /\ lat <= 180 * Unit
    /\ 0 - 180 * Unit <= lon /\ lon <= 180 * Unit

\* lines 79, 110, 133: -90 <= lat <= 90 and -180 <= lon <= 180
InRange(lat, lon) ==
    /\ 0 - 90 * Unit <= lat /\ lat <= 90 * Unit
    /\ 0 - 180 * Unit <= lon /\ lon <= 180 * Unit

\* lines 63-77: the DMS tier's conversion of the match m
DmsConvert(txt, m) ==
    LET lat_deg == FloatOfText(Group(txt, m, 1).s)
        lat_min == FloatOrZero(txt, m, 2)
        lat_sec == FloatOrZero(txt, m, 3)
        lon_deg == FloatOfText(Group(txt, m, 5).s)
        lon_min == FloatOrZero(txt, m, 6)
        lon_sec == FloatOrZero(txt, m, 7)
        raised == FirstRaised(<<lat_deg, lat_min, lat_sec, lon_deg, lon_min, lon_sec>>)
        lat_dd == lat_deg.value.v + lat_min.value.v \div 60 + lat_sec.value.v \div 3600
        lon_dd == lon_deg.value.v + lon_min.value.v \div 60 + lon_sec.value.v \div 3600
    IN  IF raised # "" THEN Raises(raised)
        ELSE Returns(<<IF Group(txt, m, 4).s \in {<<"S">>, <<"s">>}
                       THEN 0 - lat_dd ELSE lat_dd,
                       IF Group(txt, m, 8).s \in {<<"W">>, <<"w">>}
                       THEN 0 - lon_dd ELSE lon_dd>>)

\* lines 96-108: the DDM tier's conversion
DdmConvert(txt, m) ==
    LET lat_deg == FloatOfText(Group(txt, m, 1).s)
        lat_min == FloatOrZero(txt, m, 2)
        lon_deg == FloatOfText(Group(txt, m, 4).s)
        lon_min == FloatOrZero(txt, m, 5)
        raised == FirstRaised(<<lat_deg, lat_min, lon_deg, lon_min>>)
        lat_dd == lat_deg.value.v + lat_min.value.v \div 60
        lon_dd == lon_deg.value.v + lon_min.value.v \div 60
    IN  IF raised # "" THEN Raises(raised)
        ELSE Returns(<<IF Group(txt, m, 3).s \in {<<"S">>, <<"s">>}
                       THEN 0 - lat_dd ELSE lat_dd,
                       IF Group(txt, m, 6).s \in {<<"W">>, <<"w">>}
                       THEN 0 - lon_dd ELSE lon_dd>>)

\* lines 130-131: the DD tier's conversion
DdConvert(txt, m) ==
    LET lat == FloatOfText(Group(txt, m, 1).s)
        lon == FloatOfText(Group(txt, m, 2).s)
        raised == FirstRaised(<<lat, lon>>)
    IN  IF raised # "" THEN Raises(raised)
        ELSE Returns(<<lat.value.v, lon.value.v>>)

\* [mutant] the DDM tier is tried before the DMS tier
TierOrderDdmFirst == <<"DDM", "DMS", "DD">>

\* the three tiers in the order of lines 60, 93 and 127
TierOrder == <<"DMS", "DDM", "DD">>

\* the tier tried when the pattern of `tier` does not match, "" after the last
NextTier(tier) ==
    LET k == CHOOSE i \in DOMAIN TierOrder : TierOrder[i] = tier
    IN  IF k < Len(TierOrder) THEN TierOrder[k + 1] ELSE ""

\* lines 60, 93, 127: pattern.search(cleaned)
TierSearch(tier, clean) ==
    CASE tier = "DMS" -> Search(coord_regex, clean, 8, 1)
      [] tier = "DDM" -> Search(ddm_regex, clean, 6, 1)
      [] tier = "DD" -> Search(dd_pattern, clean, 2, 1)

TierConvert(tier, clean, m) ==
    CASE tier = "DMS" -> DmsConvert(clean, m)
      [] tier = "DDM" -> DdmConvert(clean, m)
      [] tier = "DD" -> DdConvert(clean, m)

\* lines 62-90, 95-121, 129-144: what a tier returns on its match m: None
\* when the conversion raised or the pair is out of range, else the pair
TierResult(tier, clean, m) ==
    LET c == TierConvert(tier, clean, m)
    IN  IF c.raised # "" \/ ~InRange(c.value[1], c.value[2]) THEN NoneV
        ELSE Pair(Flt(c.value[1]), Flt(c.value[2]))

\* lines 59-145 from `tier` on: the first tier whose pattern matches
\* decides; [tier, coords], tier "" when no pattern matches
RECURSIVE ParseFrom(_, _)
ParseFrom(clean, tier) ==
    IF tier = "" THEN [tier |-> "", coords |-> NoneV]
    ELSE LET m == TierSearch(tier, clean)
         IN  IF m.ok
             THEN [tier |-> tier, coords |-> TierResult(tier, clean, m)]
             ELSE ParseFrom(clean, NextTier(tier))

\* _parse_gps_from_text(text): None or the pair (lat, lon)
_parse_gps_from_text(txt) == ParseFrom(Cleaned(txt), TierOrder[1]).coords

(***************************************************************************)
(* The texts.  A coordinate text is a latitude group, a separator and a    *)
(* longitude group; a group is a body in one of the formats with its       *)
(* hemisphere letter after it, in lower case after it, before it, or       *)
(* without one.                                                            *)
(***************************************************************************)
D00 == <<"0", "0">>
D10 == <<"1", "0">>
D30 == <<"3", "0">>
D95 == <<"9", "5">>
D110 == <<"1", "1", "0">>
D200 == <<"2", "0", "0">>

DmsMarked(d) == d \o <<"°">> \o D30 \o <<"'">> \o D00 \o <<"\"">>
DmsSpaced(d) == d \o <<" ">> \o D30 \o <<" ">> \o D00 \o <<" ">>
DmsStarred(d) == d \o <<"*">> \o D30 \o <<"/">> \o D00 \o <<"\"">>
DdmMarked(d) == d \o <<"°">> \o D30 \o <<".", "5", "'">>

Formats == {"DmsMarked", "DmsSpaced", "DmsStarred", "DdmMarked"}

Body(format, d) ==
    CASE format = "DmsMarked" -> DmsMarked(d)
      [] format = "DmsSpaced" -> DmsSpaced(d)
      [] format = "DmsStarred" -> DmsStarred(d)
      [] format = "DdmMarked" -> DdmMarked(d)

LowerCase(c) ==
    CASE c = "N" -> "n" [] c = "S" -> "s" [] c = "E" -> "e" [] c = "W" -> "w"
      [] OTHER -> c

Styled(style, body, hemisphere) ==
    CASE style = "suffix" -> body \o <<hemisphere>>
      [] style = "lower" -> body \o <<LowerCase(hemisphere)>>
      [] style = "prefix" -> <<hemisphere>> \o body
      [] style = "none" -> body

\* the styles of the latitude and of the longitude group of one text
StylePairs ==
    { <<"suffix", "suffix">>, <<"lower", "lower">>, <<"suffix", "lower">>,
      <<"prefix", "prefix">>, <<"none", "none">> }

HemispherePairs == { <<"S", "E">>, <<"N", "W">> }

Separators == { <<" ">>, <<",">> }

CoordinateText(format, lat, lon, hemispheres, styles, separator) ==
    Styled(styles[1], Body(format, lat), hemispheres[1]) \o separator
    \o Styled(styles[2], Body(format, lon), hemispheres[2])

DmsDdmTexts ==
    { CoordinateText(f, lat, lon, h, s, sep) :
        f \in Formats, lat \in {D10, D95}, lon \in {D110, D200},
        h \in HemispherePairs, s \in StylePairs, sep \in Separators }

Lat10 == <<"1", "0", ".", "1", "2", "3", "4", "5", "6">>
Lon110 == <<"1", "1", "0", ".", "6", "5", "4", "3", "2", "1">>
Lat95 == <<"9", "5", ".", "0", "0", "0", "0">>
Lon200 == <<"2", "0", "0", ".", "0", "0", "0", "0">>

DdTexts ==
    { lat \o sep \o lon :
        lat \in {Lat10, Lat95, <<"-">> \o Lat10},
        lon \in {Lon110, Lon200, <<"-">> \o Lon110},
        sep \in {<<" ">>, <<",">>, <<",", " ">>, <<"\n">>} }

\* S10°30'00" E110°30'00"
TextHemisphereFirst ==
    CoordinateText("DmsMarked", D10, D110, <<"S", "E">>, <<"prefix", "prefix">>, <<" ">>)

\* 10°30'00"S 110°30'00"E
TextDmsMarked ==
    CoordinateText("DmsMarked", D10, D110, <<"S", "E">>, <<"suffix", "suffix">>, <<" ">>)

\* 10 30 00 S 110 30 00 E
TextDmsSpaced ==
    CoordinateText("DmsSpaced", D10, D110, <<"S", "E">>, <<"suffix", "suffix">>, <<" ">>)

\* 10°30.5'N 110°30.5'W
TextDdm ==
    CoordinateText("DdmMarked", D10, D110, <<"N", "W">>, <<"suffix", "suffix">>, <<" ">>)

\* 95°30'00"N 110°30'00"W: the DMS pattern matches, the latitude is 95.5
TextLatitude95 ==
    CoordinateText("DmsMarked", D95, D110, <<"N", "W">>, <<"suffix", "suffix">>, <<" ">>)

\* 10.123456,110.654321
TextDdComma == Lat10 \o <<",">> \o Lon110

\* 10.123456 110.654321
TextDdSpace == Lat10 \o <<" ">> \o Lon110

\* 0.0000 0.0000
TextZeroPair == <<"0", ".", "0", "0", "0", "0", " ", "0", ".", "0", "0", "0", "0">>

\* IMG 0042
TextNoise == <<"I", "M", "G", " ", "0", "0", "4", "2">>

\* lat 10°30'00"S, a newline, lon 110°30'00"E
TextTwoLines ==
    <<"l", "a", "t", " ">> \o Styled("suffix", DmsMarked(D10), "S")
    \o <<"\n", "l", "o", "n", " ">> \o Styled("suffix", DmsMarked(D110), "E")

\* 10°3.0.5'S 110°30.5'E: the minutes are no number
TextBadMinutes ==
    D10 \o <<"°", "3", ".", "0", ".", "5", "'", "S", " ">>
    \o Styled("suffix", DdmMarked(D110), "E")

Texts ==
    DmsDdmTexts \cup DdTexts
    \cup {<<>>, TextZeroPair, TextNoise, TextTwoLines, TextBadMinutes}

\* the text with its hemisphere letters N, S, E, W in lower case
LowerHemispheres(t) == [i \in DOMAIN t |-> LowerCase(t[i])]

(***************************************************************************)
(* src/src/core/preprocess.py and src/src/core/ocr.py                      *)
(*                                                                         *)
(* The recognition engines are outside the program: what an engine returns *)
(* for a photo is an input.  A candidate text block is kept as its raw     *)
(* text together with what _parse_gps_from_text returns for it (coords:    *)
(* None or a pair), written out here and compared with the parser's result *)
(* where the blocks are parsed.                                            *)
(***************************************************************************)
Block(raw, parse) == [kind |-> "text", raw |-> raw, coords |-> parse]
BlockEmpty == Block(<<>>, NoneV)
BlockNoise == Block(TextNoise, NoneV)
BlockDms ==
    Block(TextDmsSpaced, Pair(Flt(0 - (21 * Unit) \div 2), Flt((221 * Unit) \div 2)))
BlockZero == Block(TextZeroPair, Pair(Flt(0), Flt(0)))

List(blocks) == [kind |-> "list", blocks |-> blocks]

\* what _extract_text_with_easyocr can return: None, or a list of blocks
EasyOcrReturns ==
    { NoneV, List(<<>>), List(<<BlockNoise>>), List(<<BlockDms>>),
      List(<<BlockNoise, BlockZero, BlockDms>>) }

\* what _extract_text_with_google_vision can return: None, or one text
GoogleVisionReturns == { NoneV, BlockEmpty, BlockNoise, BlockDms }

EngineReturns(eng) ==
    IF eng = "easyocr" THEN EasyOcrReturns ELSE GoogleVisionReturns

\* line 16: the object easyocr.Reader(...) returns
Reader == [kind |-> "easyocr.Reader"]

\* what easyocr_reader.readtext(...) does (line 166): a list, or an exception
ReadtextOutcomes ==
    {Returns(l) : l \in EasyOcrReturns \ {NoneV}} \cup {Raises("RuntimeError")}

\* [mutant] a missing reader is made up for when the adapter is invoked
EasyOcrRetryingInit(reader, outcome) ==
    IF outcome.raised # "" THEN NoneV ELSE outcome.value

\* lines 159-169: _extract_text_with_easyocr with the module global `reader`
_extract_text_with_easyocr(reader, outcome) ==
    IF reader = NoneV THEN NoneV
    ELSE IF outcome.raised # "" THEN NoneV
    ELSE outcome.value

\* the credential paths a caller passes: None, a path of no file, and the
\* paths of two credential files
KeyPaths == {NoneV, Str("missing.json"), Str("key.json"), Str("other.json")}

\* line 179: key_path is set and os.path.exists(key_path)
CredentialFileExists(key_path) ==
    key_path # NoneV /\ key_path.s \in {"key.json", "other.json"}

\* line 185: the object vision.ImageAnnotatorClient() returns, which has read
\* the credentials the environment named at that moment
Client(key_path) == [kind |-> "ImageAnnotatorClient", credentials |-> key_path]

\* what vision.ImageAnnotatorClient() does: the client, or an exception
ConstructionOutcomes == {"constructed", "DefaultCredentialsError"}

\* what lines 188-194 do: the text, or an exception (of open, of
\* text_detection, or the one raised for response.error.message)
DetectionOutcomes ==
    {Returns(b) : b \in GoogleVisionReturns \ {NoneV}} \cup {Raises("Exception")}

\* [mutant] a client is constructed in every invocation that has credentials
GoogleVisionConstructingEachCall(client, key_path, construction, detection) ==
    IF ~CredentialFileExists(key_path) \/ construction # "constructed"
    THEN [value |-> NoneV, client |-> client, constructed |-> FALSE]
    ELSE [value |-> IF detection.raised # "" THEN NoneV ELSE detection.value,
          client |-> Client(key_path), constructed |-> TRUE]

\* lines 172-197: _extract_text_with_google_vision with the module global
\* `client`: the value returned, the global afterwards, and whether a client
\* was constructed
_extract_text_with_google_vision(client, key_path, construction, detection) ==
    IF client = NoneV /\ ~CredentialFileExists(key_path)
    THEN [value |-> NoneV, client |-> NoneV, constructed |-> FALSE]
    ELSE IF client = NoneV /\ construction # "constructed"
    THEN [value |-> NoneV, client |-> NoneV, constructed |-> FALSE]
    ELSE [value |-> IF detection.raised # "" THEN NoneV ELSE detection.value,
          client |-> IF client = NoneV THEN Client(key_path) ELSE client,
          constructed |-> client = NoneV]

\* [mutant] the blocks are taken from the last to the first
BlockAtReversed(blocks, i) == blocks[Len(blocks) + 1 - i]

\* line 243: the block the i-th iteration of the loop takes
BlockAt(blocks, i) == blocks[i]

\* line 246: the tuple returned for a block with a coordinate
OcrTuple(block) ==
    [kind |-> "ocr", lat |-> block.coords.lat, lon |-> block.coords.lon,
     raw_text |-> block.raw]

\* the images a call is made for: one cv2 can decode and one it cannot
Images == {p \in Photos : ~p.exif}

\* while a call is in progress nothing has been returned
Pending == Returns([kind |-> "pending"])

\* preprocess_image: cv2.imread gives None for a file it cannot decode and
\* analyze_image_characteristics then raises in cv2.cvtColor; nothing in
\* preprocess_image, extract_gps_with_ocr or the workflow catches it
preprocess_image(p) == IF p.cv THEN Returns(NoneV) ELSE Raises("cv2.error")

\* lines 224-233: the candidate blocks of the engine's answer
RawTextBlocks(eng, answer) ==
    IF answer.kind = "None" THEN <<>>
    ELSE IF eng = "easyocr" THEN answer.blocks
    ELSE IF answer.raw = <<>> THEN <<>> ELSE <<answer>>

\* lines 243-251: the first block, in the engine's order, with a coordinate
RECURSIVE FirstCoords(_, _)
FirstCoords(blocks, i) ==
    IF i > Len(blocks) THEN NoneV
    ELSE IF blocks[i].coords # NoneV
    THEN [kind |-> "ocr", lat |-> blocks[i].coords.lat,
          lon |-> blocks[i].coords.lon, raw_text |-> blocks[i].raw]
    ELSE FirstCoords(blocks, i + 1)

\* extract_gps_with_ocr(image_path, engine, ...) when the engine answers
\* `returned`: [raised, value], value being None or (lat, lon, raw text)
extract_gps_with_ocr(p, eng, answer) ==
    IF preprocess_image(p).raised # ""
    THEN Raises(preprocess_image(p).raised)
    ELSE Returns(FirstCoords(RawTextBlocks(eng, answer), 1))

(***************************************************************************)
(* src/src/workflows/gps_extraction.py: run_gps_extraction_workflow        *)
(***************************************************************************)
\* lines 80-82
gps_tags_present(d) == Get(d, "lat") # NoneV \/ Get(d, "lon") # NoneV

\* [mutant] the negation of the degenerate-pair test is lost
HasValidGpsNegationDropped(d) ==
    gps_tags_present(d) /\ (Get(d, "lat") = Deg(0) /\ Get(d, "lon") = Deg(0))

\* [mutant] the degenerate (0.0, 0.0) pair is not excluded
HasValidGpsZeroAccepted(d) == gps_tags_present(d)

\* lines 83-85
has_valid_gps(d) ==
    gps_tags_present(d) /\ ~(Get(d, "lat") = Deg(0) /\ Get(d, "lon") = Deg(0))

\* [mutant] the master switch ocr_disabled is not consulted
EntersRecognitionIgnoringSwitch(d) ==
    /\ ~has_valid_gps(d)
    /\ ~(no_ocr_on_invalid_gps /\ gps_tags_present(d))

\* lines 88-89: the recognition block is entered
EntersRecognition(d) ==
    /\ ~has_valid_gps(d)
    /\ ~ocr_disabled
    /\ ~(no_ocr_on_invalid_gps /\ gps_tags_present(d))

\* [mutant] the comparison with the ceiling is off by one
BudgetAllowsOffByOne == gcv_limit = -1 \/ gcv_processed_count <= gcv_limit

\* lines 105 and 135: the budget allows one more remote call
BudgetAllows == gcv_limit = -1 \/ gcv_processed_count < gcv_limit

\* [mutant] only a call that found a coordinate is counted
BudgetAfterOnSuccess(result) ==
    IF result # NoneV THEN gcv_processed_count + 1 ELSE gcv_processed_count

\* lines 113 and 146: the counter after a remote call that returned `result`
BudgetAfter(result) == gcv_processed_count + 1

\* the entry of ocr_calls for a call of extract_gps_with_ocr; the engine
\* itself is reached only when preprocessing returns
Call(eng, role) ==
    [file |-> file_index, engine |-> eng, role |-> role,
     engine_reached |-> preprocess_image(photo).raised = ""]

\* the variables of the other specifications stay at these values
WorkflowUnused ==
    /\ ocr_disabled = FALSE
    /\ ocr_engine = "easyocr"
    /\ gcv_fallback = FALSE
    /\ gcv_limit = -1
    /\ no_ocr_on_invalid_gps = FALSE
    /\ tags_to_extract = EmptyDict
    /\ pc = "unused"
    /\ file_index = 0
    /\ photo = NoPhoto
    /\ image_data = EmptyDict
    /\ ocr_result = NoneV
    /\ source_engine = ""
    /\ gcv_processed_count = 0
    /\ all_image_data = <<>>
    /\ ocr_calls = <<>>

ParserUnused ==
    /\ text = <<>>
    /\ cleaned = <<>>
    /\ parse_pc = "unused"
    /\ consulted = <<>>
    /\ coords = NoneV

OcrUnused ==
    /\ easyocr_reader = NoneV
    /\ gcv_client = NoneV
    /\ ocr_pc = "unused"
    /\ engine = ""
    /\ gcv_key_path = NoneV
    /\ raw_text_blocks = <<>>
    /\ block_index = 0
    /\ returned = Returns(NoneV)
    /\ parsed = <<>>
    /\ reader_inits = <<>>
    /\ client_constructions = 0
    /\ invoked = [e \in OCREngine |-> 0]

Init ==
    /\ ParserUnused
    /\ OcrUnused
    /\ ocr_disabled \in BOOLEAN
    /\ ocr_engine \in OCREngine
    /\ gcv_fallback \in BOOLEAN
    /\ gcv_limit \in -1 .. MaxLimit
    /\ no_ocr_on_invalid_gps \in BOOLEAN
    /\ tags_to_extract \in TagConfigs
    /\ pc = "loop"
    /\ file_index = 0
    /\ photo = NoPhoto
    /\ image_data = EmptyDict
    /\ ocr_result = NoneV
    /\ source_engine = ""
    /\ gcv_processed_count = 0
    /\ all_image_data = <<>>
    /\ ocr_calls = <<>>

\* lines 73-85: the next file is taken and its metadata decoded
ExtractExif ==
    /\ pc = "loop"
    /\ file_index < MaxPhotos
    /\ \E p \in Photos :
         LET r == extract_exif_data(p, tags_to_extract)
         IN  /\ photo' = p
             /\ IF r.raised # ""
                THEN /\ pc' = "aborted"
                     /\ image_data' = EmptyDict
                ELSE /\ pc' = "metadata_checked"
                     /\ image_data' = IF r.value = NoneV THEN EmptyDict ELSE r.value
    /\ file_index' = file_index + 1
    /\ ocr_result' = NoneV
    /\ source_engine' = ""
    /\ UNCHANGED <<parser_vars, ocr_vars, params, gcv_processed_count, all_image_data, ocr_calls>>

\* lines 88-93: no recognition for this photo
NoRecognition ==
    /\ pc = "metadata_checked"
    /\ ~EntersRecognition(image_data)
    /\ pc' = "resolved"
    /\ UNCHANGED <<parser_vars, ocr_vars, params, file_index, photo, image_data, ocr_result,
                   source_engine, gcv_processed_count, all_image_data, ocr_calls>>

\* lines 94-127: the primary recognition stage
PrimaryStage ==
    /\ pc = "metadata_checked"
    /\ EntersRecognition(image_data)
    /\ IF ocr_engine = "google" /\ ~BudgetAllows
       THEN /\ pc' = "primary_done"
            /\ UNCHANGED <<ocr_result, source_engine, gcv_processed_count, ocr_calls>>
       ELSE \E answer \in EngineReturns(ocr_engine) :
              LET r == extract_gps_with_ocr(photo, ocr_engine, answer)
              IN  /\ ocr_calls' = Append(ocr_calls, Call(ocr_engine, "primary"))
                  /\ IF r.raised # ""
                     THEN /\ pc' = "aborted"
                          /\ UNCHANGED <<ocr_result, source_engine, gcv_processed_count>>
                     ELSE /\ pc' = "primary_done"
                          /\ ocr_result' = r.value
                          /\ gcv_processed_count' =
                                IF ocr_engine = "google"
                                THEN BudgetAfter(r.value)
                                ELSE gcv_processed_count
                          /\ source_engine' =
                                IF ocr_engine = "google"
                                THEN "Google Vision" ELSE "EasyOCR"
    /\ UNCHANGED <<parser_vars, ocr_vars, params, file_index, photo, image_data, all_image_data>>

\* lines 153-161: the recognised coordinate is put into the record
WithOcrResult(d, result) ==
    IF result # NoneV
    THEN ("lat" :> result.lat) @@ ("lon" :> result.lon) @@ d
    ELSE d

\* [mutant] the fallback policy flag is not consulted
FallbackDueIgnoringPolicy == ocr_result = NoneV /\ ocr_engine = "easyocr"

\* lines 130-135: the remote engine is due as the secondary fallback
FallbackDue == ocr_result = NoneV /\ ocr_engine = "easyocr" /\ gcv_fallback

\* lines 129-161: the secondary fallback, then the result is merged
FallbackStage ==
    /\ pc = "primary_done"
    /\ IF FallbackDue /\ BudgetAllows
       THEN \E answer \in EngineReturns("google") :
              LET r == extract_gps_with_ocr(photo, "google", answer)
              IN  /\ ocr_calls' = Append(ocr_calls, Call("google", "fallback"))
                  /\ IF r.raised # ""
                     THEN /\ pc' = "aborted"
                          /\ UNCHANGED <<ocr_result, source_engine,
                                         gcv_processed_count, image_data>>
                     ELSE /\ pc' = "resolved"
                          /\ ocr_result' = r.value
                          /\ gcv_processed_count' = BudgetAfter(r.value)
                          /\ source_engine' = "Google Vision (Fallback)"
                          /\ image_data' = WithOcrResult(image_data, r.value)
       ELSE /\ pc' = "resolved"
            /\ image_data' = WithOcrResult(image_data, ocr_result)
            /\ UNCHANGED <<ocr_result, source_engine, gcv_processed_count, ocr_calls>>
    /\ UNCHANGED <<parser_vars, ocr_vars, params, file_index, photo, all_image_data>>

\* lines 164-173: the row is completed and collected (include_full_path is
\* at its default, True)
FinalRow(d) ==
    LET named == ("name" :> [kind |-> "file", index |-> file_index]) @@ d
        url == IF Get(named, "lat") # NoneV /\ Get(named, "lon") # NoneV
               THEN "maps_url" :> [kind |-> "url", lat |-> named["lat"],
                                   lon |-> named["lon"]]
               ELSE EmptyDict
    IN  ("photo_path" :> [kind |-> "path", index |-> file_index]) @@ url @@ named

Finalize ==
    /\ pc = "resolved"
    /\ all_image_data' = Append(all_image_data, FinalRow(image_data))
    /\ pc' = "loop"
    /\ photo' = NoPhoto
    /\ image_data' = EmptyDict
    /\ ocr_result' = NoneV
    /\ source_engine' = ""
    /\ UNCHANGED <<parser_vars, ocr_vars, params, file_index, gcv_processed_count, ocr_calls>>

\* line 73: image_files is exhausted
EndLoop ==
    /\ pc = "loop"
    /\ pc' = "done"
    /\ UNCHANGED <<parser_vars, ocr_vars, params, file_index, photo, image_data, ocr_result,
                   source_engine, gcv_processed_count, all_image_data, ocr_calls>>

\* lines 181-187: the columns of the table (their order left out);
\* include_full_path is at its default, True
final_columns == DOMAIN tags_to_extract \cup {"name", "maps_url", "photo_path"}

\* lines 180, 188: pd.DataFrame(all_image_data).reindex(columns=final_columns):
\* each row keeps the final columns only, None standing for a missing cell
DataFrame ==
    [i \in DOMAIN all_image_data |->
        [c \in final_columns |-> Get(all_image_data[i], c)]]

Next ==
    \/ ExtractExif
    \/ NoRecognition
    \/ PrimaryStage
    \/ FallbackStage
    \/ Finalize
    \/ EndLoop

Spec == Init /\ [][Next]_vars

(***************************************************************************)
(* ParserSpec: _parse_gps_from_text(text), one step per tier.              *)
(***************************************************************************)
ParserInit ==
    /\ WorkflowUnused
    /\ OcrUnused
    /\ text \in Texts
    /\ cleaned = <<>>
    /\ parse_pc = "start"
    /\ consulted = <<>>
    /\ coords = NoneV

\* lines 35-43
Normalise ==
    /\ parse_pc = "start"
    /\ cleaned' = Cleaned(text)
    /\ parse_pc' = TierOrder[1]
    /\ UNCHANGED <<text, consulted, coords, workflow_vars, ocr_vars>>

\* the tier's pattern is searched in the normalised text: a match makes
\* the tier return, no match hands over to the next tier (or, after the
\* last one, to the return None of line 145)
TierStep(tier) ==
    /\ consulted' = Append(consulted, tier)
    /\ LET m == TierSearch(tier, cleaned)
       IN  IF m.ok
           THEN /\ coords' = TierResult(tier, cleaned, m)
                /\ parse_pc' = "returned"
           ELSE /\ coords' = NoneV
                /\ parse_pc' = IF NextTier(tier) = "" THEN "returned"
                               ELSE NextTier(tier)
    /\ UNCHANGED <<text, cleaned, workflow_vars, ocr_vars>>

\* lines 60-90
TryDms ==
    /\ parse_pc = "DMS"
    /\ TierStep("DMS")

\* lines 93-121
TryDdm ==
    /\ parse_pc = "DDM"
    /\ TierStep("DDM")

\* lines 127-145
TryDd ==
    /\ parse_pc = "DD"
    /\ TierStep("DD")

ParserNext ==
    \/ Normalise
    \/ TryDms
    \/ TryDdm
    \/ TryDd

ParserSpec == ParserInit /\ [][ParserNext]_vars

(***************************************************************************)
(* OcrSpec: the import of src/src/core/ocr.py, then the calls of           *)
(* extract_gps_with_ocr a process makes, each followed block by block.     *)
(***************************************************************************)
OcrInit ==
    /\ WorkflowUnused
    /\ ParserUnused
    /\ easyocr_reader = NoneV
    /\ gcv_client = NoneV
    /\ ocr_pc = "import"
    /\ engine = ""
    /\ gcv_key_path = NoneV
    /\ raw_text_blocks = <<>>
    /\ block_index = 0
    /\ returned = Returns(NoneV)
    /\ parsed = <<>>
    /\ reader_inits = <<>>
    /\ client_constructions = 0
    /\ invoked = [e \in OCREngine |-> 0]

\* lines 14-23: the module is imported
ImportModule ==
    /\ ocr_pc = "import"
    /\ \E initialised \in BOOLEAN :
         /\ easyocr_reader' = IF initialised THEN Reader ELSE NoneV
         /\ reader_inits' = Append(reader_inits, initialised)
    /\ gcv_client' = NoneV
    /\ ocr_pc' = "idle"
    /\ UNCHANGED <<engine, gcv_key_path, raw_text_blocks, block_index, returned,
                   parsed, client_constructions, invoked, workflow_vars, parser_vars>>

\* lines 235-241: the call returns None without blocks, or enters the loop
EnterLoop(blocks) ==
    /\ raw_text_blocks' = blocks
    /\ parsed' = <<>>
    /\ IF blocks = <<>>
       THEN /\ returned' = Returns(NoneV)
            /\ ocr_pc' = "idle"
            /\ block_index' = 0
       ELSE /\ returned' = Pending
            /\ ocr_pc' = "blocks"
            /\ block_index' = 1

\* an exception leaves extract_gps_with_ocr before any engine is asked
CallRaises(e) ==
    /\ returned' = Raises(e)
    /\ raw_text_blocks' = <<>>
    /\ parsed' = <<>>
    /\ block_index' = 0
    /\ ocr_pc' = "idle"

\* lines 203-228, 235-241: a call with engine EASYOCR
CallWithEasyOcr ==
    /\ ocr_pc = "idle"
    /\ invoked["easyocr"] + invoked["google"] < MaxCalls
    /\ engine' = "easyocr"
    /\ \E key_path \in KeyPaths : gcv_key_path' = key_path
    /\ \E p \in Images :
         IF preprocess_image(p).raised # ""
         THEN /\ CallRaises(preprocess_image(p).raised)
              /\ UNCHANGED invoked
         ELSE \E outcome \in ReadtextOutcomes :
                /\ invoked' = [invoked EXCEPT !["easyocr"] = @ + 1]
                /\ EnterLoop(RawTextBlocks("easyocr",
                       _extract_text_with_easyocr(easyocr_reader, outcome)))
    /\ UNCHANGED <<easyocr_reader, gcv_client, reader_inits, client_constructions,
                   workflow_vars, parser_vars>>

\* lines 203-222, 229-241: a call with engine GOOGLE
CallWithGoogle ==
    /\ ocr_pc = "idle"
    /\ invoked["easyocr"] + invoked["google"] < MaxCalls
    /\ engine' = "google"
    /\ \E key_path \in KeyPaths, p \in Images :
         /\ gcv_key_path' = key_path
         /\ IF preprocess_image(p).raised # ""
            THEN /\ CallRaises(preprocess_image(p).raised)
                 /\ UNCHANGED <<invoked, gcv_client, client_constructions>>
            ELSE \E construction \in ConstructionOutcomes,
                    detection \in DetectionOutcomes :
                   LET r == _extract_text_with_google_vision(
                                gcv_client, key_path, construction, detection)
                   IN  /\ invoked' = [invoked EXCEPT !["google"] = @ + 1]
                       /\ gcv_client' = r.client
                       /\ client_constructions' =
                             IF r.constructed THEN client_constructions + 1
                             ELSE client_constructions
                       /\ EnterLoop(RawTextBlocks("google", r.value))
    /\ UNCHANGED <<easyocr_reader, reader_inits, workflow_vars, parser_vars>>

\* lines 243-246: one iteration of the loop over raw_text_blocks
ParseBlock ==
    /\ ocr_pc = "blocks"
    /\ block_index <= Len(raw_text_blocks)
    /\ parsed' = Append(parsed, block_index)
    /\ LET text_block == BlockAt(raw_text_blocks, block_index)
       IN  IF text_block.coords # NoneV
           THEN /\ returned' = Returns(OcrTuple(text_block))
                /\ ocr_pc' = "idle"
                /\ UNCHANGED block_index
           ELSE /\ block_index' = block_index + 1
                /\ UNCHANGED <<returned, ocr_pc>>
    /\ UNCHANGED <<easyocr_reader, gcv_client, engine, gcv_key_path,
                   raw_text_blocks, reader_inits, client_constructions, invoked,
                   workflow_vars, parser_vars>>

\* lines 248-251: no block gave a coordinate
ReturnNone ==
    /\ ocr_pc = "blocks"
    /\ block_index > Len(raw_text_blocks)
    /\ returned' = Returns(NoneV)
    /\ ocr_pc' = "idle"
    /\ UNCHANGED <<easyocr_reader, gcv_client, engine, gcv_key_path,
                   raw_text_blocks, block_index, parsed, reader_inits,
                   client_constructions, invoked, workflow_vars, parser_vars>>

OcrNext ==
    \/ ImportModule
    \/ CallWithEasyOcr
    \/ CallWithGoogle
    \/ ParseBlock
    \/ ReturnNone

OcrSpec == OcrInit /\ [][OcrNext]_vars

(***************************************************************************)
(* What the properties speak about.                                        *)
(***************************************************************************)
\* the calls of extract_gps_with_ocr with the remote engine, so far
RemoteCalls == {i \in DOMAIN ocr_calls : ocr_calls[i].engine = "google"}

\* the remote calls in which the remote engine itself was reached
RemoteAttempts == {i \in RemoteCalls : ocr_calls[i].engine_reached}

\* the calls made for file number f
CallsFor(f) == {i \in DOMAIN ocr_calls : ocr_calls[i].file = f}

\* the record the metadata decoder gave for the current photo
Metadata ==
    LET r == extract_exif_data(photo, tags_to_extract)
    IN  IF r.raised # "" \/ r.value = NoneV THEN EmptyDict ELSE r.value

\* both coordinates present and not the degenerate pair
BothPresent(d) ==
    /\ Get(d, "lat") # NoneV
    /\ Get(d, "lon") # NoneV
    /\ ~(Get(d, "lat") = Deg(0) /\ Get(d, "lon") = Deg(0))

IsZeroPair(d) == Get(d, "lat") = Deg(0) /\ Get(d, "lon") = Deg(0)

\* a photo is being worked on
InPhoto == pc \in {"metadata_checked", "primary_done", "resolved"}

Last(seq) == seq[Len(seq)]

\* this step calls extract_gps_with_ocr
CallMade == Len(ocr_calls') = Len(ocr_calls) + 1

\* this step calls the remote engine for a photo that already had a call
SecondaryRemoteCall ==
    /\ CallMade
    /\ Last(ocr_calls').engine = "google"
    /\ CallsFor(file_index) # {}

\* the file carries GPS coordinate tags
GpsTagsInFile(p) ==
    p.exif /\ ("GPSLatitude" \in DOMAIN p.gps \/ "GPSLongitude" \in DOMAIN p.gps)

\* a rational of the coordinate tags has denominator zero
CorruptEncoding(p) ==
    HasZeroDenominator(p.gps, "GPSLatitude") \/ HasZeroDenominator(p.gps, "GPSLongitude")

(***************************************************************************)
(* C1.  With a ceiling gcv_limit >= 0, the remote engine is called at most *)
(* gcv_limit times in a run, primary and fallback calls counted together:  *)
(* once the ceiling is reached every later remote call is skipped.         *)
(***************************************************************************)
C1_RemoteCallsWithinLimit ==
    gcv_limit >= 0 =>
        /\ Cardinality(RemoteCalls) <= gcv_limit
        /\ gcv_processed_count <= gcv_limit

\* limit 1, two photos that both needed the remote engine: the first was
\* sent to it, the second one's call was skipped
C1_SecondCallSkipped ==
    /\ gcv_limit = 1
    /\ ocr_engine = "google"
    /\ file_index = 2
    /\ pc = "primary_done"
    /\ Cardinality(RemoteCalls) = 1
    /\ CallsFor(1) = {1}
    /\ CallsFor(2) = {}

(***************************************************************************)
(* C2.  With ocr_disabled set no recognition engine is called for any      *)
(* photo, whatever its metadata, and the budget counter stays at zero.     *)
(***************************************************************************)
C2_DisabledMeansNoEngine ==
    ocr_disabled =>
        /\ ocr_calls = <<>>
        /\ gcv_processed_count = 0
        /\ pc # "primary_done"
        /\ ocr_result = NoneV

\* a disabled run that has finished a photo without metadata coordinate and
\* a photo with the (0.0, 0.0) pair
C2_DisabledRunDone ==
    /\ ocr_disabled
    /\ pc = "done"
    /\ Len(all_image_data) = 2
    /\ Get(all_image_data[1], "lat") = NoneV
    /\ IsZeroPair(all_image_data[2])

(***************************************************************************)
(* C3.  A photo's metadata coordinate is accepted as valid (recognition is *)
(* skipped for it) only if both latitude and longitude are present and the *)
(* pair is not (0.0, 0.0).                                                 *)
(***************************************************************************)
C3_ValidOnlyIfBothPresent ==
    (/\ pc = "resolved"
     /\ ~ocr_disabled
     /\ has_valid_gps(Metadata)
     /\ CallsFor(file_index) = {}) => BothPresent(Metadata)

(***************************************************************************)
(* C4.  A photo whose metadata gives both coordinates, not (0.0, 0.0),     *)
(* goes straight to its terminal state: no step taken for it calls an      *)
(* engine or changes the budget counter, and the row collected for it      *)
(* carries exactly the metadata latitude and longitude.                    *)
(***************************************************************************)
C4_ValidMetadataGoesToDone ==
    [][ (InPhoto /\ BothPresent(Metadata)) =>
            /\ ocr_calls' = ocr_calls
            /\ gcv_processed_count' = gcv_processed_count
            /\ pc = "metadata_checked" => (pc' = "resolved" /\ image_data' = image_data)
            /\ pc # "metadata_checked" =>
                  /\ pc = "resolved"
                  /\ pc' = "loop"
                  /\ all_image_data' # all_image_data
                  /\ Last(all_image_data')["lat"] = Metadata["lat"]
                  /\ Last(all_image_data')["lon"] = Metadata["lon"] ]_vars

\* a run with recognition enabled whose first row has the metadata
\* coordinate (-10.5, 110.5) and which has called no engine
C4_MetadataRowCollected ==
    /\ ~ocr_disabled
    /\ Len(all_image_data) = 1
    /\ all_image_data[1]["lat"] = Flt(0 - (21 * Unit) \div 2)
    /\ Get(all_image_data[1], "lon") = Flt((221 * Unit) \div 2)
    /\ ocr_calls = <<>>

C6_SkipPolicyNoEngine ==
    (/\ no_ocr_on_invalid_gps
     /\ InPhoto
     /\ GpsTagsInFile(photo)
     /\ (IsZeroPair(Metadata) \/ CorruptEncoding(photo))) =>
        /\ CallsFor(file_index) = {}
        /\ pc # "primary_done"
        /\ ocr_result = NoneV

(***************************************************************************)
(* C7.  The remote engine is called as a secondary fallback for a photo    *)
(* exactly when the primary engine is the local one, its call for the      *)
(* photo gave no coordinate, gcv_fallback is set and the ceiling is not    *)
(* reached (or there is none).  A coordinate that call returns becomes the *)
(* photo's coordinate; when it returns none the record stays as it was.    *)
(***************************************************************************)
C7_FallbackExactlyWhenDue ==
    [][ /\ SecondaryRemoteCall <=>
              (/\ pc = "primary_done"
               /\ ocr_engine = "easyocr"
               /\ \E i \in CallsFor(file_index) : ocr_calls[i].engine = "easyocr"
               /\ ocr_result = NoneV
               /\ gcv_fallback
               /\ (gcv_limit = -1 \/ gcv_processed_count < gcv_limit))
        /\ SecondaryRemoteCall =>
              /\ Last(ocr_calls').engine_reached
              /\ pc' = "resolved"
              /\ IF ocr_result' # NoneV
                 THEN /\ image_data'["lat"] = ocr_result'.lat
                      /\ image_data'["lon"] = ocr_result'.lon
                 ELSE image_data' = image_data
        /\ (pc = "primary_done" /\ ~SecondaryRemoteCall) =>
              /\ ocr_result' = ocr_result
              /\ ocr_result = NoneV => image_data' = image_data ]_vars

\* the local engine found nothing, the remote fallback found a coordinate
C7_FallbackRecognised ==
    /\ pc = "resolved"
    /\ Cardinality(CallsFor(file_index)) = 2
    /\ source_engine = "Google Vision (Fallback)"
    /\ ocr_result # NoneV
    /\ image_data["lat"] = ocr_result.lat

(***************************************************************************)
(* C8.  gcv_processed_count is the number of remote-engine calls attempted *)
(* so far: every attempted remote call adds one, whether it gave a         *)
(* coordinate or nothing, and metadata decoding, local-engine calls and    *)
(* skipped calls leave it alone.                                           *)
(***************************************************************************)
C8_CounterCountsRemoteAttempts ==
    gcv_processed_count = Cardinality(RemoteAttempts)

\* a local call and a remote call that both found nothing: the counter is 1
C8_FailedRemoteCallCounted ==
    /\ pc = "resolved"
    /\ Len(ocr_calls) = 2
    /\ ocr_calls[1].engine = "easyocr"
    /\ ocr_calls[2].engine = "google"
    /\ ocr_result = NoneV
    /\ gcv_processed_count = 1

(***************************************************************************)
(* C9.  No failure inside the resolution of one photo aborts the run:      *)
(* every photo is processed to its terminal state.                         *)
(***************************************************************************)
C9_NoFailureAbortsRun == pc # "aborted"

(***************************************************************************)
(* C10.  When a rational component (degrees, minutes or seconds) of the    *)
(* metadata latitude or longitude has a zero denominator, extract_exif_data *)
(* does not raise and gives None for the fields requested from GPSLatitude *)
(* and GPSLongitude.                                                       *)
(***************************************************************************)
C10_ZeroDenominatorGivesNoGps ==
    (photo.exif /\ CorruptEncoding(photo)) =>
        LET r == extract_exif_data(photo, tags_to_extract)
        IN  /\ r.raised = ""
            /\ \A f \in DOMAIN tags_to_extract :
                  tags_to_extract[f] \in {"GPSLatitude", "GPSLongitude"}
                      => r.value[f] = NoneV
            /\ pc = "metadata_checked" =>
                  (Get(image_data, "lat") = NoneV /\ Get(image_data, "lon") = NoneV)

\* a longitude whose seconds have denominator zero, the degrees being sound
C10_ZeroSecondsDecoded ==
    /\ pc = "metadata_checked"
    /\ photo.exif
    /\ "GPSLongitude" \in DOMAIN photo.gps
    /\ photo.gps["GPSLongitude"] = DmsSecDen0
    /\ image_data["lat"] = NoneV

(***************************************************************************)
(* C11.  For every photo, one without a readable EXIF container included,  *)
(* extract_exif_data returns a dict whose keys are exactly the requested   *)
(* field names, None standing for an absent field, so that every collected *)
(* row has every requested field.                                          *)
(***************************************************************************)
C11_DecoderKeepsSchema ==
    /\ pc = "metadata_checked" =>
          LET r == extract_exif_data(photo, tags_to_extract)
          IN  /\ r.raised = ""
              /\ r.value # NoneV
              /\ DOMAIN r.value = DOMAIN tags_to_extract
    /\ \A i \in DOMAIN all_image_data :
          DOMAIN tags_to_extract \subseteq DOMAIN all_image_data[i]

(***************************************************************************)
(* What the properties of the parser speak about.                          *)
(***************************************************************************)
\* the pair (-10.5, 110.5)
PairSouth10East110 == Pair(Flt(0 - (21 * Unit) \div 2), Flt((221 * Unit) \div 2))

\* the pair (10.123456, 110.654321)
PairDecimal == Pair(Flt(10123456 * (Unit \div 1000000)),
                    Flt(110654321 * (Unit \div 1000000)))

\* the tier's pattern matches the normalised text and its conversion gives
\* a latitude outside [-90, 90] or a longitude outside [-180, 180]
MatchesOutOfRange(tier) ==
    LET m == TierSearch(tier, cleaned)
        c == TierConvert(tier, cleaned, m)
    IN  /\ m.ok
        /\ c.raised = ""
        /\ \/ c.value[1] < 0 - 90 * Unit \/ c.value[1] > 90 * Unit
           \/ c.value[2] < 0 - 180 * Unit \/ c.value[2] > 180 * Unit

\* what the first of the three tiers, in the order DMS, DDM, DD, whose
\* pattern matches the normalised text returns for its match
FirstMatchDecides ==
    LET dms == Search(coord_regex, cleaned, 8, 1)
        ddm == Search(ddm_regex, cleaned, 6, 1)
        dd == Search(dd_pattern, cleaned, 2, 1)
    IN  IF dms.ok THEN [tiers |-> <<"DMS">>, coords |-> TierResult("DMS", cleaned, dms)]
        ELSE IF ddm.ok
        THEN [tiers |-> <<"DMS", "DDM">>, coords |-> TierResult("DDM", cleaned, ddm)]
        ELSE [tiers |-> <<"DMS", "DDM", "DD">>,
              coords |-> IF dd.ok THEN TierResult("DD", cleaned, dd) ELSE NoneV]

(***************************************************************************)
(* C12.  A pair returned by _parse_gps_from_text has its latitude in       *)
(* [-90, 90] and its longitude in [-180, 180].  When the pattern of a tier *)
(* matches and the conversion gives a value out of range, the parser       *)
(* returns None at that tier: no later tier is consulted.                  *)
(***************************************************************************)
C12_ReturnedPairInRange ==
    /\ coords # NoneV =>
          /\ 0 - 90 * Unit <= coords.lat.v /\ coords.lat.v <= 90 * Unit
          /\ 0 - 180 * Unit <= coords.lon.v /\ coords.lon.v <= 180 * Unit
    /\ \A i \in DOMAIN consulted :
          MatchesOutOfRange(consulted[i]) =>
              /\ parse_pc = "returned"
              /\ i = Len(consulted)
              /\ coords = NoneV

\* 95°30'00"N 110°30'00"W: the DMS tier matched, the latitude 95.5 made the
\* parser return None, and neither DDM nor DD was consulted
C12_Latitude95Rejected ==
    /\ text = TextLatitude95
    /\ parse_pc = "returned"
    /\ consulted = <<"DMS">>
    /\ MatchesOutOfRange("DMS")
    /\ coords = NoneV

(***************************************************************************)
(* C13.  The tiers are consulted in the order DMS, DDM, DD; a tier is      *)
(* consulted only when the pattern of every tier before it does not match  *)
(* the normalised text, and the first tier whose pattern matches decides   *)
(* the result alone.                                                       *)
(***************************************************************************)
C13_FirstMatchingTierDecides ==
    /\ \A i \in DOMAIN consulted :
          /\ i <= 3
          /\ consulted[i] = <<"DMS", "DDM", "DD">>[i]
          /\ i < Len(consulted) => ~TierSearch(consulted[i], cleaned).ok
    /\ parse_pc = "returned" =>
          /\ consulted = FirstMatchDecides.tiers
          /\ coords = FirstMatchDecides.coords

\* 10°30.5'N 110°30.5'W: the DMS pattern does not match, the DDM tier
\* decides, the DD tier is not consulted
C13_DdmDecides ==
    /\ text = TextDdm
    /\ parse_pc = "returned"
    /\ consulted = <<"DMS", "DDM">>
    /\ coords # NoneV

(***************************************************************************)
(* C14.  The text S10°30'00" E110°30'00", the hemisphere letter written    *)
(* before each group, parses to (-10.5, 110.5) through the DMS tier.       *)
(***************************************************************************)
C14_HemisphereFirstParsed ==
    (text = TextHemisphereFirst /\ parse_pc = "returned") =>
        /\ coords = PairSouth10East110
        /\ consulted = <<"DMS">>

(***************************************************************************)
(* C15.  The text 10.123456,110.654321 parses to (10.123456, 110.654321)   *)
(* through the DD tier.                                                    *)
(***************************************************************************)
C15_DecimalCommaParsed ==
    (text = TextDdComma /\ parse_pc = "returned") =>
        /\ coords = PairDecimal
        /\ Last(consulted) = "DD"
        /\ TierSearch("DD", cleaned).ok

(***************************************************************************)
(* C16.  Hemisphere letters are case-insensitive: a text with its letters  *)
(* N, S, E, W written n, s, e, w parses to the same result.                *)
(***************************************************************************)
C16_HemisphereCaseIgnored ==
    parse_pc = "returned" => _parse_gps_from_text(LowerHemispheres(text)) = coords

(***************************************************************************)
(* What the properties of the engine calls speak about.                    *)
(***************************************************************************)
\* the blocks of the last call in which the parser finds a coordinate
ValidBlocks ==
    {i \in DOMAIN raw_text_blocks : raw_text_blocks[i].coords # NoneV}

\* the lowest index of a non-empty set of indices
Lowest(S) == CHOOSE i \in S : \A j \in S : i <= j

\* this step invokes the adapter of the engine
Invokes(e) == invoked'[e] = invoked[e] + 1

(***************************************************************************)
(* C17.  Within one call the blocks are parsed in the order the engine     *)
(* returned them, and parsing stops at the first block with a valid pair:  *)
(* the call returns the coordinate and raw text of the lowest-index block  *)
(* whose parse is not None, no block after it is parsed, and the call      *)
(* returns None only when every block parses to None.  (What a block       *)
(* parses to is what _parse_gps_from_text returns for its raw text.)       *)
(***************************************************************************)
C17_FirstValidBlockWins ==
    /\ \A i \in DOMAIN parsed :
          /\ parsed[i] = i
          /\ i <= Len(raw_text_blocks)
          /\ i < Len(parsed) => raw_text_blocks[i].coords = NoneV
    /\ (ocr_pc = "blocks" /\ parsed = <<>>) =>
          \A i \in DOMAIN raw_text_blocks :
              raw_text_blocks[i].coords = _parse_gps_from_text(raw_text_blocks[i].raw)
    /\ (ocr_pc = "idle" /\ returned.raised = "") =>
          /\ returned.value = FirstCoords(raw_text_blocks, 1)
          /\ IF ValidBlocks = {}
             THEN /\ returned.value = NoneV
                  /\ Len(parsed) = Len(raw_text_blocks)
             ELSE LET first == raw_text_blocks[Lowest(ValidBlocks)]
                  IN  /\ returned.value # NoneV
                      /\ returned.value.lat = first.coords.lat
                      /\ returned.value.lon = first.coords.lon
                      /\ returned.value.raw_text = first.raw
                      /\ Len(parsed) = Lowest(ValidBlocks)

\* the engine returned IMG 0042, then 0.0000 0.0000, then a DMS text: the
\* second block's pair (0.0, 0.0) is returned and the third is never parsed
C17_ThirdBlockNeverParsed ==
    /\ ocr_pc = "idle"
    /\ raw_text_blocks = <<BlockNoise, BlockZero, BlockDms>>
    /\ parsed = <<1, 2>>
    /\ returned.value # NoneV
    /\ returned.value.raw_text = TextZeroPair

(***************************************************************************)
(* C18.  Once the one initialisation of the local engine (easyocr.Reader   *)
(* at import) has failed, it is never attempted again, the reader stays    *)
(* unset, and every invocation of the local engine returns no candidates   *)
(* and does not raise.                                                     *)
(***************************************************************************)
C18_FailedReaderStaysUnavailable ==
    [][ reader_inits = <<FALSE>> =>
            /\ reader_inits' = reader_inits
            /\ easyocr_reader = NoneV
            /\ easyocr_reader' = NoneV
            /\ Invokes("easyocr") =>
                  /\ raw_text_blocks' = <<>>
                  /\ returned' = Returns(NoneV)
                  /\ ocr_pc' = "idle" ]_vars

\* the initialisation failed and the local engine has been invoked twice
C18_TwoCallsWithoutReader ==
    /\ reader_inits = <<FALSE>>
    /\ invoked["easyocr"] = 2
    /\ engine = "easyocr"
    /\ ocr_pc = "idle"
    /\ returned = Returns(NoneV)

(***************************************************************************)
(* C19.  The remote client is not constructed before the first remote      *)
(* invocation and is constructed at most once: once gcv_client is set,     *)
(* every later invocation keeps it and constructs no other, whatever       *)
(* credential path it is given; an invocation with no credential file,     *)
(* gcv_client being unset, returns None and leaves it unset.               *)
(***************************************************************************)
C19_ClientConstructedOnceLazily ==
    [][ /\ client_constructions' <= 1
        /\ (gcv_client' # NoneV) <=> (client_constructions' = 1)
        /\ invoked'["google"] = 0 => gcv_client' = NoneV
        /\ gcv_client # NoneV =>
              /\ gcv_client' = gcv_client
              /\ client_constructions' = client_constructions
        /\ client_constructions' # client_constructions =>
              /\ Invokes("google")
              /\ gcv_client' = Client(gcv_key_path')
        /\ (Invokes("google") /\ gcv_client = NoneV
                /\ ~CredentialFileExists(gcv_key_path')) =>
              /\ gcv_client' = NoneV
              /\ raw_text_blocks' = <<>>
              /\ returned' = Returns(NoneV) ]_vars

\* the client was constructed with key.json in one invocation and a later
\* invocation, given the path of no file, used it and found a coordinate
C19_ClientReusedWithoutFile ==
    /\ gcv_client = Client(Str("key.json"))
    /\ client_constructions = 1
    /\ invoked["google"] >= 2
    /\ gcv_key_path = Str("missing.json")
    /\ ocr_pc = "idle"
    /\ returned.value # NoneV

(***************************************************************************)
(* C20.  The record of every photo carries a coordinate_source, one of     *)
(* METADATA, RECOGNITION_PRIMARY, RECOGNITION_FALLBACK and NONE, in the    *)
(* collected row and in the table written at the end, and the record of a  *)
(* photo whose coordinate recognition produced carries the raw matched     *)
(* text.                                                                   *)
(***************************************************************************)
C20_RecordCarriesCoordinateSource ==
    /\ \A i \in DOMAIN all_image_data :
          /\ "coordinate_source" \in DOMAIN all_image_data[i]
          /\ all_image_data[i]["coordinate_source"] \in
                {Str("METADATA"), Str("RECOGNITION_PRIMARY"),
                 Str("RECOGNITION_FALLBACK"), Str("NONE")}
    /\ pc = "done" =>
          \A i \in DOMAIN DataFrame : "coordinate_source" \in DOMAIN DataFrame[i]
    /\ (pc = "resolved" /\ ocr_result # NoneV) =>
          "raw_text" \in DOMAIN FinalRow(image_data)

(***************************************************************************)
(* C22.  Every latitude and longitude stored in the record of a photo,     *)
(* from metadata or from recognition, is in range: -90 <= latitude <= 90   *)
(* and -180 <= longitude <= 180, in the collected row and in the table.    *)
(***************************************************************************)
C22_StoredCoordinateInRange ==
    /\ \A i \in DOMAIN all_image_data :
          LET lat == Get(all_image_data[i], "lat")
              lon == Get(all_image_data[i], "lon")
          IN  /\ lat # NoneV => (0 - 90) * Unit <= lat.v /\ lat.v <= 90 * Unit
              /\ lon # NoneV => (0 - 180) * Unit <= lon.v /\ lon.v <= 180 * Unit
    /\ pc = "done" =>
          \A i \in DOMAIN DataFrame :
              Get(DataFrame[i], "lat") # NoneV =>
                  /\ (0 - 90) * Unit <= DataFrame[i]["lat"].v
                  /\ DataFrame[i]["lat"].v <= 90 * Unit

(***************************************************************************)
(* C23.  When the metadata of a photo gave the degenerate pair (0.0, 0.0)  *)
(* and no recognition stage produced a coordinate (recognition disabled,   *)
(* skipped by policy, skipped for the budget, or failed), the row          *)
(* collected for the photo has no latitude, no longitude and no maps_url.  *)
(***************************************************************************)
C23_InvalidMetadataLeavesNoCoordinate ==
    [][ (pc = "resolved" /\ pc' = "loop"
            /\ IsZeroPair(Metadata) /\ ocr_result = NoneV) =>
          LET row == Last(all_image_data')
          IN  /\ Get(row, "lat") = NoneV
              /\ Get(row, "lon") = NoneV
              /\ "maps_url" \notin DOMAIN row ]_vars

\* the calls made for file number f with the engine e
EngineCallsFor(f, e) == {i \in CallsFor(f) : ocr_calls[i].engine = e}

(***************************************************************************)
(* C24.  Every photo taken reaches its terminal state, its row collected,  *)
(* and no exception leaves it half-processed; on the way the local engine  *)
(* is called at most once and the remote engine at most once for it; and   *)
(* with the remote engine as primary engine the local engine is never      *)
(* called, also for a photo whose remote call the budget skipped.          *)
(***************************************************************************)
C24_PhotoResolvedWithOneCallPerEngine ==
    /\ pc # "aborted"
    /\ pc \in {"loop", "done"} => Len(all_image_data) = file_index
    /\ \A f \in 1 .. file_index :
          /\ Cardinality(EngineCallsFor(f, "easyocr")) <= 1
          /\ Cardinality(EngineCallsFor(f, "google")) <= 1
    /\ ocr_engine = "google" =>
          \A i \in DOMAIN ocr_calls : ocr_calls[i].engine # "easyocr"

====
